---------------------------- MODULE Spec2Model ----------------------------
(***************************************************************************)
(* Verification model of the mouse-humanizer repository.                   *)
(*                                                                         *)
(* Four subsystems are modelled, each with its own specification:          *)
(*   SpecAccumulator  WebAdjuster._execute_web_movement, hop by hop        *)
(*   SpecCursor       WebCursor / WebAdjuster operations on a driver       *)
(*   SpecKeyboard     KeyboardHumanizer on its TypingEngine                *)
(*   SpecRecorder     HCSWindowLinux recorder and the two script writers   *)
(*                                                                         *)
(* Real-valued coordinates are kept exactly as integers in units of        *)
(* 1/Scale pixel; Python's int() is truncation toward zero and Python's    *)
(* round() is round-half-to-even, and both are modelled as such.           *)
(***************************************************************************)
EXTENDS Integers, Sequences, FiniteSets, TLC

VARIABLES
    exec,                    \* one run of WebAdjuster._execute_web_movement
    \* ---- WebCursor on its WebAdjuster and driver
    origin_coordinates,      \* WebCursor.origin_coordinates
    human_origin_coordinate, \* WebCursor.human.origin_coordinate (WebAdjuster)
    optimize_for_headless,   \* WebAdjuster._linux_optimizations['optimize_for_headless']
    button_held,             \* the driver's pointer: is the left button down
    human_curve,             \* the curve WebAdjuster.move_to built last
    op,                      \* the WebCursor method running or last returned
    \* ---- KeyboardHumanizer on its TypingEngine
    settings,                \* the six boolean settings of the humanizer
    engine,                  \* KeyboardHumanizer.engine
    now,                     \* what time.time() returns
    calls,                   \* calls made on the humanizer so far
    kop,                     \* the last call on the humanizer
    \* ---- HCSWindowLinux and the script file
    hcs,                     \* the fields of the recorder window
    pointer,                 \* where the mouse is
    clock,                   \* what time() returns, in quarters of a second
    ctrl_down,               \* the Ctrl key is physically down
    phase,                   \* how far the recording session has got
    gui_script,              \* the script finish_recording wrote
    file_script,             \* the content of the script file
    gesture,                 \* the last Ctrl press the recorder took up
    \* ---- the text functions of KeyboardHumanizer, applied to one text
    sample,                  \* the text
    verdict                  \* what the functions returned for it

accVars == <<exec>>
adjVars == <<human_origin_coordinate, optimize_for_headless, human_curve>>
curVars == <<origin_coordinates, button_held, op>>
vars == <<exec, origin_coordinates, human_origin_coordinate, optimize_for_headless,
          button_held, human_curve, op, settings, engine, now, calls, kop,
          hcs, pointer, clock, ctrl_down, phase, gui_script, file_script, gesture,
          sample, verdict>>
txtVars == <<sample, verdict>>

(***************************************************************************)
(* Bounds of the model.                                                    *)
(***************************************************************************)
Scale == 2          \* coordinates are multiples of 1/Scale pixel
MaxHop == 2         \* a hop moves x by at most MaxHop/Scale pixel
MaxPoints == 3      \* longest trajectory executed by SpecAccumulator
MaxKnots == 4       \* most knots the parameter selector returns
MaxTargetPoints == 3 \* most samples the parameter selector asks for
MaxPixel == 2       \* cursor targets stay within -MaxPixel..MaxPixel
MaxCalls == 2       \* calls made on one KeyboardHumanizer
MaxTime == 3        \* the clock runs from 0 to MaxTime
FatigueFull == 2    \* fatigue_level is counted in steps of 1/FatigueFull
MaxActions == 2     \* longest recording of the recorder
MaxClock == 3       \* the recorder's clock runs from 0 to MaxClock
MaxLen == 6         \* longest text of punctuation marks, letters and blanks
MaxWords == 6       \* most words of a text of one-letter words

(***************************************************************************)
(* Arithmetic helpers: Python semantics on exact rationals n/d, d > 0.     *)
(***************************************************************************)
Abs(n) == IF n < 0 THEN -n ELSE n

Min(a, b) == IF a <= b THEN a ELSE b

\* int(n/d): truncation toward zero
TruncDiv(n, d) == IF n >= 0 THEN n \div d ELSE -((-n) \div d)

\* round(n/d): round half to even (Python 3 round on a float)
RoundDiv(n, d) ==
    LET q == n \div d
        r == n - q * d
    IN  IF 2 * r < d THEN q
        ELSE IF 2 * r > d THEN q + 1
        ELSE IF q % 2 = 0 THEN q ELSE q + 1

RECURSIVE SumX(_)
SumX(s) == IF s = <<>> THEN 0 ELSE s[1][1] + SumX(Tail(s))

RECURSIVE SumY(_)
SumY(s) == IF s = <<>> THEN 0 ELSE s[1][2] + SumY(Tail(s))

(***************************************************************************)
(* WebAdjuster._execute_web_movement                                       *)
(*                                                                         *)
(* A run is the record                                                     *)
(*   points, origin, destination   the arguments (points in 1/Scale px,    *)
(*                                 origin and destination in whole px)     *)
(*   i                             index of the next point of the loop     *)
(*   extra_numbers, current_origin in 1/Scale px                           *)
(*   total_offset                  in whole px                             *)
(*   movements                     the batch not yet handed to the chain   *)
(*   issued                        every move_by_offset call, in order     *)
(*   pc, result                    "loop" | "flush" | "done"; return value *)
(*   outcome                       how perform() ended                     *)
(***************************************************************************)
batch_size == 3

\* the non-zero moves of a batch, in order (lines 271-273)
RECURSIVE NonZeroMoves(_)
NonZeroMoves(ms) ==
    IF ms = <<>> THEN <<>>
    ELSE IF ms[1][1] # 0 \/ ms[1][2] # 0
         THEN <<ms[1]>> \o NonZeroMoves(Tail(ms))
         ELSE NonZeroMoves(Tail(ms))

\* lines 229-239: the locals before the loop
ExecStart(points, origin, destination) ==
    [ points         |-> points,
      origin         |-> origin,
      destination    |-> destination,
      i              |-> 1,
      extra_numbers  |-> <<0, 0>>,
      total_offset   |-> <<0, 0>>,
      current_origin |-> <<origin[1] * Scale, origin[2] * Scale>>,
      movements      |-> <<>>,
      issued         |-> <<>>,
      computed       |-> <<>>,
      pc             |-> IF points = <<>> THEN "done" ELSE "loop",
      outcome        |-> IF points = <<>> THEN "empty" ELSE "none",
      result         |-> IF points = <<>> THEN destination ELSE origin ]

\* final flush of the remainders, with Python's int(e + 0.5) (lines 277-282)
FinalRound(e) == TruncDiv(2 * e + Scale, 2 * Scale)

\* a batch that runs only when it is full
batch_due_when_full(movements, last) == Len(movements) >= batch_size

\* line 270: the collected movements are handed to the action chain when the
\* batch is full or the point is the last one
batch_due(movements, last) == Len(movements) >= batch_size \/ last

\* one iteration of the for loop, lines 241-274; computed keeps every move the
\* loop appended to movements, in the order it appended them
HopStep(s) ==
    LET point    == s.points[s.i]
        x_offset == point[1] - s.current_origin[1]
        y_offset == point[2] - s.current_origin[2]
        ix       == TruncDiv(x_offset, Scale)
        iy       == TruncDiv(y_offset, Scale)
        e0       == s.extra_numbers[1] + (x_offset - ix * Scale)
        e1       == s.extra_numbers[2] + (y_offset - iy * Scale)
        cx       == TruncDiv(e0, Scale)
        cy       == TruncDiv(e1, Scale)
        carry    == Abs(e0) > Scale \/ Abs(e1) > Scale
        \* the two elif branches (lines 255-262) repeat halves of the first
        \* condition and are never taken
        extra    == IF carry THEN <<e0 - cx * Scale, e1 - cy * Scale>>
                    ELSE <<e0, e1>>
        tot1     == IF carry THEN <<s.total_offset[1] + cx, s.total_offset[2] + cy>>
                    ELSE s.total_offset
        mv       == (IF carry THEN Append(s.movements, <<cx, cy>>) ELSE s.movements)
                    \o << <<ix, iy>> >>
        last     == s.i = Len(s.points)
        execute  == batch_due(mv, last)
    IN  [ s EXCEPT
            !.extra_numbers  = extra,
            !.total_offset   = <<tot1[1] + ix, tot1[2] + iy>>,
            !.current_origin = point,
            !.movements      = IF execute THEN <<>> ELSE mv,
            !.issued         = IF execute THEN @ \o NonZeroMoves(mv) ELSE @,
            !.computed       = (IF carry THEN Append(@, <<cx, cy>>) ELSE @)
                               \o << <<ix, iy>> >>,
            !.i              = @ + 1,
            !.pc             = IF last THEN "flush" ELSE "loop" ]

\* lines 276-305: the final flush, perform() and the return value.
\* outcome is how the driver answered perform():
\*   "ok"            no exception
\*   "oob_fallback"  MoveTargetOutOfBoundsException, fallback move performed
\*   "oob_failed"    MoveTargetOutOfBoundsException, fallback raised too
\*   "wde"           WebDriverException or any other exception
PerformOutcomes == {"ok", "oob_fallback", "oob_failed", "wde"}

ExecFinishStep(s, outcome) ==
    LET e0     == s.extra_numbers[1]
        e1     == s.extra_numbers[2]
        flush  == 2 * Abs(e0) > Scale \/ 2 * Abs(e1) > Scale
        fx     == FinalRound(e0)
        fy     == FinalRound(e1)
        total  == IF flush THEN <<s.total_offset[1] + fx, s.total_offset[2] + fy>>
                  ELSE s.total_offset
    IN  [ s EXCEPT
            !.total_offset = total,
            !.issued       = IF flush THEN Append(@, <<fx, fy>>) ELSE @,
            !.pc           = "done",
            !.outcome      = outcome,
            !.result       = CASE outcome = "ok" ->
                                    <<s.origin[1] + total[1], s.origin[2] + total[2]>>
                               [] outcome = "oob_fallback" -> s.destination
                               [] OTHER -> s.origin ]

\* the whole function on given arguments
RECURSIVE ExecLoop(_)
ExecLoop(s) == IF s.pc = "loop" THEN ExecLoop(HopStep(s)) ELSE s

ExecuteWebMovement(points, origin, destination, outcome) ==
    LET s == ExecLoop(ExecStart(points, origin, destination))
    IN  IF s.pc = "done" THEN s ELSE ExecFinishStep(s, outcome)

(***************************************************************************)
(* WebCursor and WebAdjuster on a Selenium driver.                         *)
(*                                                                         *)
(* Positions are pairs of whole pixels.  An element handed to a method is  *)
(* a record: kind "list" (coordinates [x, y]; valid = FALSE when int() of  *)
(* its items raises), "tuple" (coordinates given as a tuple), "WebElement" *)
(* (pos is the point inside its rectangle the adjuster aims at) or "None". *)
(* Every call on the driver may raise; the answer of the driver to each    *)
(* call of a method is an input of the action.                             *)
(***************************************************************************)
None == <<>>

TargetPositions == {<<0, 0>>, <<-1, 0>>, <<MaxPixel, 1>>}

NoElement == [kind |-> "None", valid |-> FALSE, pos |-> <<0, 0>>]

Elements ==
    {[kind |-> "list", valid |-> TRUE, pos |-> p] : p \in TargetPositions}
    \cup {[kind |-> "list", valid |-> FALSE, pos |-> <<0, 0>>],
          [kind |-> "WebElement", valid |-> TRUE, pos |-> <<1, 1>>],
          [kind |-> "tuple", valid |-> TRUE, pos |-> <<1, 1>>]}

\* WebCursor.scroll_into_view_of_element; driver_ok: the scripts did not raise
scroll_into_view_of_element(element, driver_ok) ==
    CASE element.kind = "WebElement" -> driver_ok
      [] element.kind = "list"       -> TRUE
      [] OTHER                       -> FALSE

\* WebAdjuster._get_element_coordinates; driver_ok = FALSE: the script and the
\* element.location fallback both raised, and (0, 0) is returned
get_element_coordinates(element, driver_ok) ==
    IF driver_ok THEN element.pos ELSE <<0, 0>>

\* WebAdjuster._calculate_target_coordinates; None when int() raised
calculate_target_coordinates(element, origin, absolute_offset, driver_ok) ==
    CASE element.kind \in {"list", "tuple"} ->
            IF ~element.valid THEN None
            ELSE IF ~absolute_offset THEN element.pos
            ELSE <<element.pos[1] + origin[1], element.pos[2] + origin[2]>>
      [] element.kind = "WebElement" -> get_element_coordinates(element, driver_ok)
      [] OTHER -> <<0, 0>>

(***************************************************************************)
(* Curve parameters and the trajectory generator.                          *)
(* generate_random_curve_parameters and HumanizeMouseTrajectory live in    *)
(* humancursor.utilities, whose files are not part of the sources at hand; *)
(* they are modelled from sections 4.2 and 4.3 of the specification.       *)
(* Distortion values are in tenths.                                        *)
(***************************************************************************)
DefaultCurveParameters ==
    [ offset_boundary_x    |-> 80, offset_boundary_y |-> 80,
      knots_count          |-> 2,
      distortion_mean      |-> 10, distortion_st_dev |-> 10,
      distortion_frequency |-> 5,
      tween                |-> "easeOutQuad",
      target_points        |-> MaxTargetPoints ]

\* the random draw of generate_random_curve_parameters: it raises, or picks a
\* number of knots and of samples
CurveDraws ==
    {[raised |-> TRUE, knots |-> 0, points |-> 2]}
    \cup {[raised |-> FALSE, knots |-> k, points |-> n] :
            k \in 0..MaxKnots, n \in 2..MaxTargetPoints}

\* the draws SpecCursor follows: the longest curve, whose jitter it ranges over
PathDraws == {d \in CurveDraws : ~d.raised /\ d.knots = 0 /\ d.points = MaxTargetPoints}

\* generate_random_curve_parameters(driver, origin, destination) on a draw:
\* natural-mode parameters (4.2); a move onto the spot asks for one sample and
\* zero magnitudes
generate_random_curve_parameters(origin, destination, draw) ==
    [ raised |-> draw.raised,
      params |->
        IF origin = destination
        THEN [DefaultCurveParameters EXCEPT
                !.offset_boundary_x = 0, !.offset_boundary_y = 0,
                !.knots_count = 0, !.distortion_mean = 0,
                !.distortion_st_dev = 0, !.distortion_frequency = 0,
                !.target_points = 1]
        ELSE [DefaultCurveParameters EXCEPT
                !.offset_boundary_x = 50, !.offset_boundary_y = 50,
                !.knots_count = draw.knots, !.target_points = draw.points] ]

\* jitter added to the interior samples, in 1/Scale px
Jitter == {<<0, 0>>, <<0, -1>>}

Noises == [1..(MaxTargetPoints - 2) -> Jitter]

\* sample i of n (0-based) on the straight line, in 1/Scale px
PointOnLine(origin, destination, i, n) ==
    << origin[1] * Scale + ((destination[1] - origin[1]) * Scale * i) \div (n - 1),
       origin[2] * Scale + ((destination[2] - origin[2]) * Scale * i) \div (n - 1) >>

\* HumanizeMouseTrajectory(origin, destination, **params).points: target_points
\* samples, the interior ones perturbed, the first forced to the origin and the
\* last to the destination (4.3 steps 3-5); one sample for a move onto the spot
HumanizeMouseTrajectory(origin, destination, params, noise) ==
    LET n == params.target_points
    IN  IF n < 2 THEN << <<destination[1] * Scale, destination[2] * Scale>> >>
        ELSE [ i \in 1..n |->
                 IF i = 1 THEN <<origin[1] * Scale, origin[2] * Scale>>
                 ELSE IF i = n THEN <<destination[1] * Scale, destination[2] * Scale>>
                 ELSE LET p == PointOnLine(origin, destination, i - 1, n)
                      IN  <<p[1] + noise[i - 1][1], p[2] + noise[i - 1][2]>> ]

NoCurve ==
    [ built |-> FALSE, origin |-> <<0, 0>>, destination |-> <<0, 0>>,
      steady |-> FALSE, headless |-> FALSE, fallback |-> FALSE,
      params |-> DefaultCurveParameters, points |-> <<>> ]

\* WebAdjuster._generate_human_curve, lines 186-214: the parameters handed to
\* HumanizeMouseTrajectory when nothing raises
curve_parameters(origin, destination, steady, headless, draw) ==
    LET p0 == generate_random_curve_parameters(origin, destination, draw).params
        p1 == IF steady
              THEN [p0 EXCEPT !.offset_boundary_x = 10, !.offset_boundary_y = 10,
                              !.distortion_mean = 12, !.distortion_st_dev = 12,
                              !.distortion_frequency = 1]
              ELSE p0
    IN  IF headless
        THEN [p1 EXCEPT !.knots_count = Min(@, 3), !.target_points = Min(@, 30)]
        ELSE p1

\* a _generate_human_curve that hands the generator its two endpoints in the
\* wrong order
generate_human_curve_swapped(origin, destination, steady, headless, draw, noise) ==
    LET raised == generate_random_curve_parameters(origin, destination, draw).raised
        used   == IF raised THEN DefaultCurveParameters
                  ELSE curve_parameters(origin, destination, steady, headless, draw)
    IN  [ built       |-> TRUE,
          origin      |-> origin,
          destination |-> destination,
          steady      |-> steady,
          headless    |-> headless,
          fallback    |-> raised,
          params      |-> used,
          points      |-> HumanizeMouseTrajectory(destination, origin, used, noise) ]

\* WebAdjuster._generate_human_curve; draw is the random draw of
\* generate_random_curve_parameters, noise the jitter of the generator.  When
\* the selector raises, the except branch builds the curve with the
\* generator's defaults (lines 219-222).
generate_human_curve(origin, destination, steady, headless, draw, noise) ==
    LET raised == generate_random_curve_parameters(origin, destination, draw).raised
        used   == IF raised THEN DefaultCurveParameters
                  ELSE curve_parameters(origin, destination, steady, headless, draw)
    IN  [ built       |-> TRUE,
          origin      |-> origin,
          destination |-> destination,
          steady      |-> steady,
          headless    |-> headless,
          fallback    |-> raised,
          params      |-> used,
          points      |-> HumanizeMouseTrajectory(origin, destination, used, noise) ]

\* what the driver and the random sources answer during one move
\*   scroll   scroll_into_view_of_element's scripts did not raise
\*   coords   the element's coordinates could be read
\*   perform  how perform() of the movement ended
\*   draw, noise   the random draws of the curve
\* Answers that cannot be told apart are listed once: the jitter of a sample
\* the curve does not have, and the driver's answers about an element that is
\* given by its coordinates.
NoNoise == [i \in 1..(MaxTargetPoints - 2) |-> <<0, 0>>]

MoveFates(element, draws) ==
    { f \in [scroll : BOOLEAN, coords : BOOLEAN, perform : PerformOutcomes,
             draw : draws, noise : Noises] :
        /\ (~f.draw.raised /\ f.draw.points < MaxTargetPoints) => f.noise = NoNoise
        /\ element.kind # "WebElement" => (f.scroll /\ f.coords)
        /\ ~f.scroll => ( /\ f.coords /\ f.perform = "ok" /\ f.noise = NoNoise
                          /\ f.draw.knots = 0 /\ f.draw.points = MaxTargetPoints ) }

\* WebAdjuster.move_to(element_or_pos, origin_coordinates, absolute_offset, steady)
\* on an adjuster whose origin_coordinate is self_origin.
\*   ret                the returned coordinates
\*   origin_coordinate  the adjuster's origin_coordinate afterwards
\*   curve              the curve built, NoCurve when none was
\*   moved              the target was computed and the driver performed the
\*                      movement (or its fallback) without raising
adjuster_move_to(self_origin, element, origin_arg, absolute_offset, steady, headless, fate) ==
    LET origin == IF origin_arg # None THEN origin_arg ELSE self_origin
        target == calculate_target_coordinates(element, origin, absolute_offset,
                                               fate.coords)
    IN  IF target = None
        THEN [ ret |-> origin, origin_coordinate |-> self_origin,
               origin |-> origin, target |-> None,
               curve |-> NoCurve, moved |-> FALSE ]
        ELSE LET curve == generate_human_curve(origin, target, steady, headless,
                                               fate.draw, fate.noise)
                 run   == ExecuteWebMovement(curve.points, origin, target,
                                             fate.perform)
             IN  [ ret |-> run.result, origin_coordinate |-> run.result,
                   origin |-> origin, target |-> target,
                   curve |-> curve,
                   moved |-> fate.perform \in {"ok", "oob_fallback"} ]

\* WebCursor.move_to(element, absolute_offset, origin_coordinates, steady).
\*   is_false  the method returned False (otherwise it returned coords)
\*   wc, wa    WebCursor.origin_coordinates and the adjuster's origin afterwards
cursor_move_to(element, absolute_offset, origin_arg, steady, fate) ==
    IF ~scroll_into_view_of_element(element, fate.scroll)
    THEN [ is_false |-> TRUE, coords |-> origin_coordinates,
           wc |-> origin_coordinates, wa |-> human_origin_coordinate,
           moved |-> FALSE ]
    ELSE LET r == adjuster_move_to(human_origin_coordinate, element,
                                   IF origin_arg = None THEN origin_coordinates
                                   ELSE origin_arg,
                                   absolute_offset, steady, optimize_for_headless,
                                   fate)
         IN  [ is_false |-> FALSE, coords |-> r.ret,
               wc |-> r.ret, wa |-> r.origin_coordinate, moved |-> r.moved ]


(***************************************************************************)
(* KeyboardHumanizer.                                                      *)
(*                                                                         *)
(* A text is a sequence of one-character strings.  Time is counted in      *)
(* whole ticks of the clock time.time() reads; the clock never runs        *)
(* backwards.                                                              *)
(***************************************************************************)
Max(a, b) == IF a >= b THEN a ELSE b

\* "This is a test."
PlainText == <<"T", "h", "i", "s", " ", "i", "s", " ", "a", " ", "t", "e", "s", "t", ".">>

\* "Hi there. Bye now."
EmailText == <<"H", "i", " ", "t", "h", "e", "r", "e", ".", " ", "B", "y", "e", " ", "n", "o", "w", ".">>

\* "x = a[0]"
CodeText == <<"x", " ", "=", " ", "a", "[", "0", "]">>

\* "a b a b a b"
RepetitiveText == <<"a", " ", "b", " ", "a", " ", "b", " ", "a", " ", "b">>

\* "Thus it is."
FormalText == <<"T", "h", "u", "s", " ", "i", "t", " ", "i", "s", ".">>

\* ""
EmptyText == <<>>

Texts == {PlainText, EmailText, CodeText, RepetitiveText, FormalText, EmptyText}

\* the texts SpecKeyboard calls type_text with
CallTexts == {PlainText, EmailText, CodeText, RepetitiveText}

\* `ind in text` on strings
IsInfix(ind, text) ==
    \E i \in 0..(Len(text) - Len(ind)) : SubSeq(text, i + 1, i + Len(ind)) = ind

UpperCase == <<"A", "B", "C", "D", "E", "F", "G", "H", "I", "J", "K", "L", "M", "N", "O", "P", "Q", "R", "S", "T", "U", "V", "W", "X", "Y", "Z">>

LowerCase == <<"a", "b", "c", "d", "e", "f", "g", "h", "i", "j", "k", "l", "m", "n", "o", "p", "q", "r", "s", "t", "u", "v", "w", "x", "y", "z">>

\* str.lower()
lower(text) ==
    [ i \in 1..Len(text) |->
        IF \E k \in 1..Len(UpperCase) : UpperCase[k] = text[i]
        THEN LowerCase[CHOOSE k \in 1..Len(UpperCase) : UpperCase[k] = text[i]]
        ELSE text[i] ]

Whitespace == {" ", "\t", "\n"}

\* str.strip()
RECURSIVE lstrip(_)
lstrip(text) ==
    IF text # <<>> /\ text[1] \in Whitespace THEN lstrip(Tail(text)) ELSE text

RECURSIVE rstrip(_)
rstrip(text) ==
    IF text # <<>> /\ text[Len(text)] \in Whitespace
    THEN rstrip(SubSeq(text, 1, Len(text) - 1))
    ELSE text

strip(text) == rstrip(lstrip(text))

\* str.split(): the maximal runs of non-whitespace characters
RECURSIVE split_words(_, _)
split_words(text, current) ==
    IF text = <<>>
    THEN IF current = <<>> THEN <<>> ELSE <<current>>
    ELSE IF text[1] \in Whitespace
         THEN (IF current = <<>> THEN <<>> ELSE <<current>>)
              \o split_words(Tail(text), <<>>)
         ELSE split_words(Tail(text), Append(current, text[1]))

split(text) == split_words(text, <<>>)

code_indicators ==
    { <<"d", "e", "f", " ">>,
      <<"c", "l", "a", "s", "s", " ">>,
      <<"i", "m", "p", "o", "r", "t", " ">>,
      <<"f", "r", "o", "m", " ">>,
      <<"i", "f", " ">>,
      <<"f", "o", "r", " ">>,
      <<"w", "h", "i", "l", "e", " ">>,
      <<"{">>,
      <<"}">>,
      <<"[">>,
      <<"]">>,
      <<"(", ")">>,
      <<"=", ">">>,
      <<"=", "=">>,
      <<"!", "=">>,
      <<"&", "&">>,
      <<"|", "|">>,
      <<"f", "u", "n", "c", "t", "i", "o", "n">>,
      <<"c", "o", "n", "s", "t">>,
      <<"l", "e", "t">>,
      <<"v", "a", "r">>,
      <<"r", "e", "t", "u", "r", "n">> }

email_indicators ==
    { <<"@">>,
      <<"D", "e", "a", "r">>,
      <<"S", "i", "n", "c", "e", "r", "e", "l", "y">>,
      <<"B", "e", "s", "t", " ", "r", "e", "g", "a", "r", "d", "s">>,
      <<"H", "i", " ">>,
      <<"H", "e", "l", "l", "o">>,
      <<"S", "u", "b", "j", "e", "c", "t", ":">>,
      <<"F", "r", "o", "m", ":">>,
      <<"T", "o", ":">>,
      <<".", "c", "o", "m">>,
      <<".", "o", "r", "g">>,
      <<".", "n", "e", "t">> }

formal_indicators ==
    { <<"f", "u", "r", "t", "h", "e", "r", "m", "o", "r", "e">>,
      <<"t", "h", "e", "r", "e", "f", "o", "r", "e">>,
      <<"c", "o", "n", "s", "e", "q", "u", "e", "n", "t", "l", "y">>,
      <<"m", "o", "r", "e", "o", "v", "e", "r">>,
      <<"h", "o", "w", "e", "v", "e", "r">>,
      <<"n", "e", "v", "e", "r", "t", "h", "e", "l", "e", "s", "s">>,
      <<"a", "c", "c", "o", "r", "d", "i", "n", "g", "l", "y">>,
      <<"t", "h", "u", "s">> }

\* KeyboardHumanizer._is_code_text
is_code_text(text) == \E ind \in code_indicators : IsInfix(ind, text)

\* KeyboardHumanizer._is_email_text
is_email_text(text) == \E ind \in email_indicators : IsInfix(ind, text)

\* KeyboardHumanizer._is_formal_text
is_formal_text(text) == \E ind \in formal_indicators : IsInfix(ind, lower(text))

\* a _has_repetitive_content whose threshold is inclusive
has_repetitive_content_inclusive(text) ==
    LET words == split(text)
        unique_words == {words[i] : i \in 1..Len(words)}
    IN  IF Len(words) < 5 THEN FALSE
        ELSE 10 * Cardinality(unique_words) <= 7 * Len(words)

\* KeyboardHumanizer._has_repetitive_content:
\* len(unique_words) / len(words) < 0.7
has_repetitive_content(text) ==
    LET words == split(text)
        unique_words == {words[i] : i \in 1..Len(words)}
    IN  IF Len(words) < 5 THEN FALSE
        ELSE 10 * Cardinality(unique_words) < 7 * Len(words)

\* the branch _adapt_to_context takes
ContextOf(text) ==
    IF is_code_text(text) THEN "code"
    ELSE IF is_email_text(text) THEN "email"
    ELSE IF is_formal_text(text) THEN "formal"
    ELSE IF has_repetitive_content(text) THEN "repetitive"
    ELSE "plain"

SentenceEnd == {".", "!", "?"}

\* a _split_into_sentences that cuts at every terminal punctuation mark
ends_sentence_at_any_length(current, char) == char \in SentenceEnd

\* _split_into_sentences, line 162: char ends the fragment current, which
\* already holds it
ends_sentence(current, char) ==
    char \in SentenceEnd /\ Len(strip(current)) > 3

\* the loop of _split_into_sentences over the rest of the text
RECURSIVE split_loop(_, _, _)
split_loop(text, current, sentences) ==
    IF text = <<>>
    THEN IF strip(current) # <<>> THEN Append(sentences, strip(current))
         ELSE sentences
    ELSE LET cur == Append(current, text[1])
         IN  IF ends_sentence(cur, text[1])
             THEN split_loop(Tail(text), <<>>, Append(sentences, strip(cur)))
             ELSE split_loop(Tail(text), cur, sentences)

\* KeyboardHumanizer._split_into_sentences
split_into_sentences(text) ==
    LET sentences == split_loop(text, <<>>, <<>>)
    IN  IF sentences # <<>> THEN sentences ELSE <<text>>

\* what type_text works out from a text, computed once for each text
TextInfo ==
    [ t \in Texts |->
        [ context   |-> ContextOf(t),
          sentences |-> split_into_sentences(t) ] ]

(***************************************************************************)
(* TypingEngine and TypingStats (core/typing_engine.py) are not among the  *)
(* sources; what the humanizer uses of them is modelled from sections 3,   *)
(* 4.5 and 4.7 of the specification.                                       *)
(*   error_rate is pct/100 * 0.7^p7 * 0.8^p8, kept as the three exponents  *)
(*   fatigue_level is a multiple of 1/FatigueFull                          *)
(***************************************************************************)
\* TypingStats()
TypingStats ==
    [ characters_typed |-> 0, words_typed |-> 0,
      errors_made |-> 0, corrections_made |-> 0 ]

\* TypingEngine() constructed at time t with base error rate pct/100
TypingEngine(t, pct) ==
    [ base_wpm      |-> 60,
      error_rate    |-> [pct |-> pct, p7 |-> 0, p8 |-> 0],
      fatigue_level |-> 0,
      session_start |-> t,
      stats         |-> TypingStats ]

\* TypingEngine.update_fatigue(session_duration): monotone and saturating
update_fatigue(e, session_duration) ==
    [e EXCEPT !.fatigue_level = Min(Max(session_duration, 0), FatigueFull)]

\* TypingEngine.type_text(sentence) when it returns True: every keystroke is
\* counted, mistaken ones too, and every mistake is corrected
engine_type_text(e, sentence, mistakes) ==
    [e EXCEPT !.stats =
        [ characters_typed |-> @.characters_typed + Len(sentence) + mistakes,
          words_typed      |-> @.words_typed + Len(split(sentence)),
          errors_made      |-> @.errors_made + mistakes,
          corrections_made |-> @.corrections_made + mistakes ]]

\* TypingEngine.add_spontaneous_correction(sentence): one character retyped
add_spontaneous_correction(e) ==
    [e EXCEPT !.stats.characters_typed = @ + 1,
              !.stats.corrections_made = @ + 1]

(***************************************************************************)
(* KeyboardHumanizer: the settings, and type_text with its helpers.        *)
(***************************************************************************)
\* KeyboardHumanizer.__init__
DefaultSettings ==
    [ simulate_errors |-> TRUE, auto_correct |-> TRUE, use_copy_paste |-> TRUE,
      add_thinking_pauses |-> TRUE, simulate_fatigue |-> TRUE,
      context_aware |-> TRUE ]

\* keyword arguments of type_text: for each override key whether it is given
\* and its value; speed_multiplier num/den, or a value int() cannot take
Absent == [given |-> FALSE, value |-> FALSE]

Given(v) == [given |-> TRUE, value |-> v]

NoSpeed == [given |-> FALSE, valid |-> TRUE, num |-> 1, den |-> 1]

Speed(n, d) == [given |-> TRUE, valid |-> TRUE, num |-> n, den |-> d]

BadSpeed == [given |-> TRUE, valid |-> FALSE, num |-> 1, den |-> 1]

NoKwargs ==
    [ simulate_errors |-> Absent, use_copy_paste |-> Absent,
      add_thinking_pauses |-> Absent, speed_multiplier |-> NoSpeed ]

\* the keyword arguments the model calls type_text with:
\*   none;  all three settings False with speed_multiplier=1.5;
\*   simulate_errors=False with speed_multiplier=None
KwargsSet ==
    { NoKwargs,
      [NoKwargs EXCEPT !.simulate_errors = Given(FALSE),
                       !.use_copy_paste = Given(FALSE),
                       !.add_thinking_pauses = Given(FALSE),
                       !.speed_multiplier = Speed(3, 2)],
      [NoKwargs EXCEPT !.simulate_errors = Given(FALSE),
                       !.speed_multiplier = BadSpeed] }

\* type_text, lines 45-49: the opts with the overrides applied
apply_overrides(opts, kwargs) ==
    [opts EXCEPT
        !.simulate_errors = IF kwargs.simulate_errors.given
                            THEN kwargs.simulate_errors.value ELSE @,
        !.use_copy_paste = IF kwargs.use_copy_paste.given
                           THEN kwargs.use_copy_paste.value ELSE @,
        !.add_thinking_pauses = IF kwargs.add_thinking_pauses.given
                                THEN kwargs.add_thinking_pauses.value ELSE @]

\* type_text, lines 71-72: the overridden opts put back
restore_overrides(opts, original, kwargs) ==
    [opts EXCEPT
        !.simulate_errors = IF kwargs.simulate_errors.given
                            THEN original.simulate_errors ELSE @,
        !.use_copy_paste = IF kwargs.use_copy_paste.given
                           THEN original.use_copy_paste ELSE @,
        !.add_thinking_pauses = IF kwargs.add_thinking_pauses.given
                                THEN original.add_thinking_pauses ELSE @]

\* KeyboardHumanizer._adapt_to_context, on the branch the text selects
adapt_to_context(opts, e, context) ==
    CASE context = "code" ->
            [ settings |-> opts,
              engine   |-> [e EXCEPT !.base_wpm = TruncDiv(@ * 8, 10),
                                     !.error_rate.p7 = @ + 1] ]
      [] context = "email" ->
            [ settings |-> [opts EXCEPT !.use_copy_paste = TRUE],
              engine   |-> e ]
      [] context = "formal" ->
            [ settings |-> opts,
              engine   |-> [e EXCEPT !.base_wpm = TruncDiv(@ * 9, 10),
                                     !.error_rate.p8 = @ + 1] ]
      [] context = "repetitive" ->
            [ settings |-> [opts EXCEPT !.use_copy_paste = TRUE],
              engine   |-> [e EXCEPT !.base_wpm = TruncDiv(@ * 12, 10)] ]
      [] OTHER -> [settings |-> opts, engine |-> e]

\* KeyboardHumanizer._update_fatigue at time t
humanizer_update_fatigue(e, t) == update_fatigue(e, t - e.session_start)

\* the pauses _get_thinking_pause returns, in tenths of a second
ThinkingPauses == {0, 3, 15}

\* What the engine and the random sources do during one _type_text_naturally:
\*   stop, how   the sentence at which engine.type_text returned False or
\*               raised (0: at none); the model lets the last sentence fail
\*   mistakes    mistakes the engine makes in the first sentence
\*   spont       random.random() < 0.05 after each sentence
\*   pause       what _get_thinking_pause returns before each later sentence
\* Draws that cannot show are listed once, and the model lets at most one of
\* mistakes, spont and pause happen in a call.
TypeFates(sentences, opts, e, kwargs) ==
    { f \in [stop : {0, Len(sentences)}, how : {"False", "raise"},
             mistakes : 0..1, spont : BOOLEAN, pause : ThinkingPauses] :
        /\ f.stop = 0 => f.how = "False"
        /\ f.mistakes = 1 => (e.error_rate.pct > 0 /\ f.stop = 0)
        /\ f.spont => (f.stop = 0 /\ Len(sentences[1]) > 10 /\ f.mistakes = 0)
        /\ f.pause > 0 => ( /\ Len(sentences) > 1
                            /\ f.stop = 0 /\ f.mistakes = 0 /\ ~f.spont )
        /\ (kwargs.speed_multiplier.given /\ ~kwargs.speed_multiplier.valid) =>
              (f.stop = 0 /\ f.mistakes = 0 /\ ~f.spont /\ f.pause = 0) }

\* a _type_text_naturally that pauses before its first sentence as well
thinking_pause_before_first(opts, i, fate) ==
    IF opts.add_thinking_pauses THEN fate.pause ELSE 0

\* _type_text_naturally, lines 140-141: the pause taken before sentence i
\* (counted from 1), 0 when none is
thinking_pause(opts, i, fate) ==
    IF i > 1 /\ opts.add_thinking_pauses THEN fate.pause ELSE 0

\* the loop of _type_text_naturally from sentence i on (lines 138-153)
RECURSIVE type_loop(_, _, _, _, _, _)
type_loop(opts, e, sentences, i, fate, slept) ==
    IF i > Len(sentences)
    THEN [engine |-> e, outcome |-> "True", slept |-> slept]
    ELSE LET sentence == sentences[i]
             pause  == thinking_pause(opts, i, fate)
             slept1 == IF pause > 0 THEN Append(slept, pause) ELSE slept
         IN  IF fate.stop = i
             THEN [ engine |-> e, slept |-> slept1,
                    outcome |-> IF fate.how = "raise" THEN "raised" ELSE "False" ]
             ELSE LET e1 == engine_type_text(e, sentence,
                                             IF i = 1 THEN fate.mistakes ELSE 0)
                      e2 == IF fate.spont /\ Len(sentence) > 10
                            THEN add_spontaneous_correction(e1) ELSE e1
                  IN  type_loop(opts, e2, sentences, i + 1, fate, slept1)

\* KeyboardHumanizer._type_text_naturally
type_text_naturally(opts, e, text, fate) ==
    type_loop(opts, e, TextInfo[text].sentences, 1, fate, <<>>)

\* KeyboardHumanizer.type_text(text, **kwargs) at time t
type_text(opts, e, text, kwargs, t, fate) ==
    LET s1 == apply_overrides(opts, kwargs)
        sm == kwargs.speed_multiplier
    IN  IF sm.given /\ ~sm.valid
        THEN \* line 53 raises, outside the try
             [settings |-> s1, engine |-> e, outcome |-> "raised", slept |-> <<>>]
        ELSE LET e1 == IF sm.given
                       THEN [e EXCEPT !.base_wpm = TruncDiv(@ * sm.num, sm.den)]
                       ELSE e
                 a  == IF s1.context_aware
                       THEN adapt_to_context(s1, e1, TextInfo[text].context)
                       ELSE [settings |-> s1, engine |-> e1]
                 e2 == IF a.settings.simulate_fatigue
                       THEN humanizer_update_fatigue(a.engine, t)
                       ELSE a.engine
                 run == type_text_naturally(a.settings, e2, text, fate)
             IN  [ settings |-> restore_overrides(a.settings, opts, kwargs),
                   engine   |-> IF sm.given
                                THEN [run.engine EXCEPT !.base_wpm = e.base_wpm]
                                ELSE run.engine,
                   outcome  |-> run.outcome,
                   slept    |-> run.slept ]

\* a reset_session that keeps the statistics
reset_session_keeps_stats(e, t) ==
    [e EXCEPT !.session_start = t, !.fatigue_level = 0]

\* KeyboardHumanizer.reset_session at time t
reset_session(e, t) ==
    [e EXCEPT !.stats = TypingStats, !.session_start = t, !.fatigue_level = 0]

\* KeyboardHumanizer.configure(key=value) on a humanizer with the settings
\* opts and the engine e: hasattr(self, key) holds for the six settings and
\* for the attribute engine (and for the methods, which the model leaves out)
configure(opts, e, key, value) ==
    IF key \in DOMAIN opts
    THEN [settings |-> [opts EXCEPT ![key] = value], engine |-> e]
    ELSE IF key = "engine"
    THEN [settings |-> opts, engine |-> value]
    ELSE [settings |-> opts, engine |-> e]

\* KeyboardHumanizer.get_current_config
get_current_config(opts) ==
    [ key \in {"simulate_errors", "auto_correct", "use_copy_paste",
               "add_thinking_pauses", "simulate_fatigue", "context_aware"} |->
        opts[key] ]

(***************************************************************************)
(* SpecKeyboard: a humanizer on its engine, called at most MaxCalls times  *)
(* while the clock runs up to MaxTime.                                     *)
(*                                                                         *)
(* kop describes the last call:                                            *)
(*   name, outcome    the method; "True" | "False" | "raised" | "none"     *)
(*   at               the time of the call                                 *)
(*   kwargs, text, text_len   the arguments of type_text and len(text)     *)
(*   key, value       the keyword argument of configure                    *)
(*   settings_before, engine_before   the state the call started from      *)
(*   spont            a spontaneous correction was drawn                   *)
(*   slept            the pauses handed to time.sleep                      *)
(***************************************************************************)
NoCall(opts, e) ==
    [ name |-> "none", outcome |-> "none", at |-> 0, kwargs |-> NoKwargs,
      text |-> EmptyText, text_len |-> 0, key |-> "none", value |-> FALSE,
      settings_before |-> opts, engine_before |-> e,
      spont |-> FALSE, slept |-> <<>> ]

\* the base error rates an engine is constructed with, in percent
ErrorRates == {0, 2}

KeyboardIdle ==
    /\ settings = DefaultSettings
    /\ engine = TypingEngine(0, 0)
    /\ now = 0
    /\ calls = 0
    /\ kop = NoCall(DefaultSettings, TypingEngine(0, 0))

kbdVars == <<settings, engine, now, calls, kop>>

(***************************************************************************)
(* HCSWindowLinux, the recorder of HCScripter, and the two script writers. *)
(*                                                                         *)
(* hcs holds the fields of the window object.  A recorded action is a      *)
(* Python list, modelled as a sequence of items; an item is a tuple (x, y) *)
(* or an int.  Time is counted in quarters of a second.  A script is the   *)
(* sequence of the cursor calls it makes, each with the function, its      *)
(* positional arguments and the text of its keyword arguments.             *)
(***************************************************************************)
hold_time_threshold == 2

TupleItem(pos) == [tuple |-> TRUE, x |-> pos[1], y |-> pos[2]]

IntItem(n) == [tuple |-> FALSE, x |-> n, y |-> 0]

\* list(pos) of a tuple
ListOf(item) == <<IntItem(item.x), IntItem(item.y)>>

\* where the mouse can be
Positions == {<<1, 2>>, <<3, 4>>}

\* seq[i] the Python way: the place of index i in seq, 0 when out of range
PyIndex(seq, i) ==
    LET k == IF i >= 0 THEN i + 1 ELSE Len(seq) + i + 1
    IN  IF k >= 1 /\ k <= Len(seq) THEN k ELSE 0

\* HCSWindowLinux.__init__, lines 25 and 47-55
NewWindow ==
    [ coordinates |-> <<>>, index |-> -1, ctrl_pressed |-> FALSE,
      press_time |-> 0, recording |-> FALSE ]

\* on_key_press for ctrl_l / ctrl_r at time t with the mouse at pos
on_key_press_ctrl(w, pos, t) ==
    IF ~w.recording \/ w.ctrl_pressed THEN w
    ELSE [w EXCEPT !.ctrl_pressed = TRUE,
                   !.press_time = t,
                   !.coordinates = Append(@, <<TupleItem(pos)>>),
                   !.index = @ + 1]

\* on_key_press for the character z
on_key_press_z(w, pos) ==
    IF ~w.recording THEN w
    ELSE [w EXCEPT !.coordinates = Append(@, ListOf(TupleItem(pos))),
                   !.index = @ + 1]

\* on_key_release for ctrl_l / ctrl_r at time t with the mouse at pos; an
\* IndexError or TypeError ends the handler in its except branch
on_key_release_ctrl(w, pos, t) ==
    IF ~w.recording \/ ~w.ctrl_pressed THEN w
    ELSE LET w1 == [w EXCEPT !.ctrl_pressed = FALSE]
             k  == PyIndex(w.coordinates, w.index)
         IN  IF k = 0 THEN w1
             ELSE IF t - w.press_time > hold_time_threshold
             THEN [w1 EXCEPT !.coordinates[k] = Append(@, TupleItem(pos)),
                             !.press_time = 0]
             ELSE IF w.coordinates[k][1].tuple
             THEN [w1 EXCEPT !.coordinates[k] = ListOf(w.coordinates[k][1]),
                             !.press_time = 0]
             ELSE w1

\* clear_recording, once the user has confirmed
clear_recording(w) == [w EXCEPT !.coordinates = <<>>, !.index = -1]

Call(fn, args, kw) == [fn |-> fn, args |-> args, kw |-> kw]

\* the call HCSWindowLinux.generate_script writes for one action
gui_call(action) ==
    IF Len(action) = 2 /\ action[1].tuple
    THEN Call("drag_and_drop",
              << ListOf(action[1]),
                 IF action[2].tuple THEN ListOf(action[2]) ELSE <<action[2]>> >>,
              "")
    ELSE IF Len(action) = 1
    THEN Call("click_on",
              << IF action[1].tuple THEN ListOf(action[1]) ELSE action >>, "")
    ELSE Call("move_to", <<action>>, "")

\* HCSWindowLinux.generate_script
generate_script(coordinates) ==
    [i \in 1..Len(coordinates) |-> gui_call(coordinates[i])]

\* the call generate_script_content of launch.py writes for one action; every
\* item of a recorded list is an int or a tuple
launcher_call(coordinate) ==
    IF Len(coordinate) = 2
    THEN Call("move_to", <<coordinate>>, "duration=None, steady=False")
    ELSE Call("click_on", <<coordinate>>, "clicks=1, click_duration=0, steady=False")

\* launch.generate_script_content
generate_script_content(coordinates) ==
    [i \in 1..Len(coordinates) |-> launcher_call(coordinates[i])]

(***************************************************************************)
(* SpecRecorder: one window from its construction to the script file.      *)
(*   pointer, clock, ctrl_down   the mouse, time() and the physical key    *)
(*   phase        "open", then "closed" once finish_recording has saved    *)
(*                and destroyed the window, then "written" once            *)
(*                launch.main has written the file again; "cancelled"      *)
(*                when the window was closed without saving                *)
(*   gui_script   what finish_recording wrote                              *)
(*   file_script  the content of the script file                           *)
(*   gesture      the last Ctrl press the recorder took up: its kind       *)
(*                ("pending" until the release, then "click" or "drag"),   *)
(*                the place of its entry, where the mouse was at the press *)
(*                and at the release, whether only the release touched     *)
(*                the recording since the press (clean), and whether the   *)
(*                entry is still in the recording (alive)                  *)
(***************************************************************************)
NoGesture ==
    [ kind |-> "none", slot |-> 0, start |-> <<0, 0>>, end |-> <<0, 0>>,
      clean |-> FALSE, alive |-> FALSE ]

RecorderIdle ==
    /\ hcs = NewWindow
    /\ pointer = <<1, 2>>
    /\ clock = 0
    /\ ctrl_down = FALSE
    /\ phase = "open"
    /\ gui_script = <<>>
    /\ file_script = <<>>
    /\ gesture = NoGesture

recVars == <<hcs, pointer, clock, ctrl_down, phase, gui_script, file_script, gesture>>

(***************************************************************************)
(* SpecCursor: the public operations of WebCursor.                         *)
(*                                                                         *)
(* op describes the method that is running or has last returned:           *)
(*   name, pc          the method; "idle" once it has returned             *)
(*   result            "True" | "False" | "coords" | "none"                *)
(*   moved             its last movement computed a target and the driver  *)
(*                     performed it without raising                        *)
(*   clicks_issued     click() calls handed to perform()                   *)
(*   clicks_performed  of these, the ones the driver performed             *)
(*   pressed           click_and_hold() was performed                      *)
(*   releases_issued   release() calls handed to perform()                 *)
(*   releases_performed of these, the ones the driver performed            *)
(*   handler           the except branch of drag_and_drop ran              *)
(*   to                drag_to_element, while the move to it is to come    *)
(*   move_false        the move to drag_to_element returned False          *)
(* perform() leaves the chain empty whether or not it raises.              *)
(***************************************************************************)
IdleOp(name, result) ==
    [ name |-> name, pc |-> "idle", result |-> result, moved |-> FALSE,
      clicks_issued |-> 0, clicks_performed |-> 0,
      pressed |-> FALSE, releases_issued |-> 0, releases_performed |-> 0,
      handler |-> FALSE, to |-> NoElement, move_false |-> FALSE ]

CursorIdle ==
    /\ origin_coordinates = <<0, 0>>
    /\ button_held = FALSE
    /\ op = IdleOp("none", "none")


\* where the adjuster stands when SpecAdjuster calls it
AdjusterOrigins == {<<0, 0>>, <<1, -1>>}

AccumulatorIdle == exec = ExecStart(<<>>, <<0, 0>>, <<0, 0>>)

AdjusterIdle ==
    /\ human_origin_coordinate = <<0, 0>>
    /\ optimize_for_headless = FALSE
    /\ human_curve = NoCurve


\* no function has been applied to the text yet
NoVerdict ==
    [ split |-> FALSE, sentences |-> <<>>,
      classified |-> FALSE, code |-> FALSE, email |-> FALSE, formal |-> FALSE,
      repetitive |-> FALSE ]

TextIdle ==
    /\ sample = EmptyText
    /\ verdict = NoVerdict

(***************************************************************************)
(* SpecAccumulator: every trajectory of at most MaxPoints points on the    *)
(* 1/Scale grid, and some of MaxPoints + 1 points, executed hop by hop     *)
(* from an integer origin.                                                 *)
(***************************************************************************)
\* hops of a trajectory in 1/Scale px: x by up to MaxHop units either way,
\* y by at most one unit either way
Hops == ((-MaxHop)..MaxHop) \X {-1, 0, 1}

RECURSIVE SeqsUpTo(_, _)
SeqsUpTo(S, n) ==
    IF n = 0 THEN {<<>>}
    ELSE LET shorter == SeqsUpTo(S, n - 1)
         IN  shorter \cup {Append(q, x) : q \in {t \in shorter : Len(t) = n - 1}, x \in S}

\* the points reached from `from` (1/Scale px) by a sequence of hops
RECURSIVE PointsOf(_, _)
PointsOf(from, hops) ==
    IF hops = <<>> THEN <<>>
    ELSE LET p == <<from[1] + hops[1][1], from[2] + hops[1][2]>>
         IN  <<p>> \o PointsOf(p, Tail(hops))

\* the pixel a point lies in (the destination handed over with a curve)
PixelOf(p) == <<TruncDiv(p[1], Scale), TruncDiv(p[2], Scale)>>

Origins == {<<1, -1>>}

\* the hops of the trajectories that are one point longer than MaxPoints, so
\* that a batch fills before the last point
BatchHops == {<<1, 1>>, <<MaxHop, 0>>, <<-1, -MaxHop>>}

Trajectories ==
    SeqsUpTo(Hops, MaxPoints)
    \cup {q \in SeqsUpTo(BatchHops, MaxPoints + 1) : Len(q) = MaxPoints + 1}

InitAccumulator ==
    /\ \E hops \in Trajectories, origin \in Origins :
          LET points == PointsOf(<<origin[1] * Scale, origin[2] * Scale>>, hops)
          IN  exec = ExecStart(points, origin,
                               IF points = <<>> THEN origin
                               ELSE PixelOf(points[Len(points)]))
    /\ AdjusterIdle
    /\ CursorIdle
    /\ KeyboardIdle
    /\ RecorderIdle
    /\ TextIdle

ExecHop ==
    /\ exec.pc = "loop"
    /\ exec' = HopStep(exec)
    /\ UNCHANGED <<adjVars, curVars, kbdVars, recVars, txtVars>>

ExecFinish ==
    /\ exec.pc = "flush"
    /\ \E outcome \in PerformOutcomes : exec' = ExecFinishStep(exec, outcome)
    /\ UNCHANGED <<adjVars, curVars, kbdVars, recVars, txtVars>>

NextAccumulator == ExecHop \/ ExecFinish

SpecAccumulator == InitAccumulator /\ [][NextAccumulator]_vars

(***************************************************************************)
(* C1 (no-drift): for any trajectory executed from a given origin, also    *)
(* with fractional intermediate coordinates and hops in the negative x or  *)
(* y direction, the sum of all emitted integer dx equals                   *)
(* round(last.x - origin.x) and the sum of all emitted dy equals           *)
(* round(last.y - origin.y), last being the trajectory's final point.      *)
(* Stated of the runs that completed without a driver exception and whose  *)
(* final point is a whole pixel, as every destination computed by          *)
(* _calculate_target_coordinates is: there round() is the identity and no  *)
(* tie-breaking rule enters.                                               *)
(***************************************************************************)
C1_NoDrift ==
    (/\ exec.pc = "done"
     /\ exec.outcome = "ok"
     /\ exec.points[Len(exec.points)][1] % Scale = 0
     /\ exec.points[Len(exec.points)][2] % Scale = 0) =>
        LET last == exec.points[Len(exec.points)]
        IN  /\ SumX(exec.issued) = RoundDiv(last[1] - exec.origin[1] * Scale, Scale)
            /\ SumY(exec.issued) = RoundDiv(last[2] - exec.origin[2] * Scale, Scale)


(***************************************************************************)
(* SpecAdjuster: WebAdjuster.move_to and reset_origin called directly.     *)
(* human_curve keeps the curve _generate_human_curve built for the last    *)
(* call together with the arguments it was built from.                     *)
(***************************************************************************)
OnPage(p) == Abs(p[1]) <= MaxPixel /\ Abs(p[2]) <= MaxPixel

OriginArgs == {None, <<1, 1>>}

\* the page's scroll offsets read by reset_origin; None: the script raised
ScrollOffsets == {None, <<0, 0>>, <<0, 1>>}

\* WebAdjuster.reset_origin
reset_origin(scroll) == IF scroll = None THEN <<0, 0>> ELSE scroll

InitAdjuster ==
    /\ human_origin_coordinate \in AdjusterOrigins
    /\ optimize_for_headless \in BOOLEAN
    /\ human_curve = NoCurve
    /\ AccumulatorIdle
    /\ CursorIdle
    /\ KeyboardIdle
    /\ RecorderIdle
    /\ TextIdle

AdjusterMoveTo ==
    /\ ~human_curve.built
    /\ \E element \in Elements, origin_arg \in OriginArgs,
       absolute_offset \in BOOLEAN, steady \in BOOLEAN :
      \E fate \in MoveFates(element, CurveDraws) :
        LET r == adjuster_move_to(human_origin_coordinate, element, origin_arg,
                                  absolute_offset, steady, optimize_for_headless,
                                  fate)
        IN  /\ OnPage(r.ret)
            /\ human_origin_coordinate' = r.origin_coordinate
            /\ human_curve' = r.curve
            /\ UNCHANGED <<optimize_for_headless, accVars, curVars, kbdVars, recVars, txtVars>>

AdjusterResetOrigin ==
    /\ \E scroll \in ScrollOffsets : human_origin_coordinate' = reset_origin(scroll)
    /\ UNCHANGED <<optimize_for_headless, human_curve, accVars, curVars, kbdVars, recVars, txtVars>>

NextAdjuster == AdjusterMoveTo \/ AdjusterResetOrigin

SpecAdjuster == InitAdjuster /\ [][NextAdjuster]_vars

InitCursor ==
    /\ origin_coordinates = <<0, 0>>
    /\ button_held = FALSE
    /\ op = IdleOp("none", "none")
    /\ AdjusterIdle
    /\ AccumulatorIdle
    /\ KeyboardIdle
    /\ RecorderIdle
    /\ TextIdle

\* The answers SpecCursor follows.  A fallback that raised and a driver error
\* both make the adjuster return its origin and are followed once; the jitter
\* is none, or one sub-pixel step on every interior sample.
CursorNoises == {NoNoise, [i \in 1..(MaxTargetPoints - 2) |-> <<0, -1>>]}

CursorFates(element) ==
    {f \in MoveFates(element, PathDraws) :
        f.perform # "oob_failed" /\ f.noise \in CursorNoises}

\* the calls made on the cursor
MoveCalls ==
    {[element |-> e, absolute_offset |-> FALSE, origin_arg |-> None, steady |-> FALSE] :
        e \in Elements}
    \cup {[element |-> e, absolute_offset |-> TRUE, origin_arg |-> <<1, 1>>, steady |-> TRUE] :
        e \in {x \in Elements : x.kind = "list" /\ x.pos # <<MaxPixel, 1>>}}

DragSources == {e \in Elements : e.kind # "WebElement" /\ e.pos \in {<<-1, 0>>, <<1, 1>>, <<0, 0>>}}

DragTargets == {e \in Elements : e.kind # "WebElement" /\ e.pos \in {<<MaxPixel, 1>>, <<1, 1>>, <<0, 0>>}}
               \cup {NoElement}

\* WebCursor.move_to
MoveTo ==
    /\ op.pc = "idle"
    /\ \E c \in MoveCalls :
         \E fate \in CursorFates(c.element) :
           \E r \in {cursor_move_to(c.element, c.absolute_offset, c.origin_arg,
                                   c.steady, fate)} :
               /\ OnPage(r.wc)
               /\ origin_coordinates' = r.wc
               /\ human_origin_coordinate' = r.wa
               /\ op' = [IdleOp("move_to", IF r.is_false THEN "False" ELSE "coords")
                            EXCEPT !.moved = r.moved]
    /\ UNCHANGED <<button_held, optimize_for_headless, human_curve, accVars, kbdVars, recVars, txtVars>>

\* one click().perform() of _perform_click or drag_and_drop
click_perform(o, held, ok) ==
    [ op   |-> [o EXCEPT !.clicks_issued = @ + 1,
                         !.clicks_performed = @ + (IF ok THEN 1 ELSE 0)],
      held |-> held /\ ~ok ]

\* WebCursor.click_on with one left click of no duration; click_ok: perform()
\* of the click did not raise
ClickOn ==
    /\ op.pc = "idle"
    /\ \E c \in MoveCalls :
         \E fate \in CursorFates(c.element) :
           \E r \in {cursor_move_to(c.element, c.absolute_offset, c.origin_arg,
                                   c.steady, fate)} :
           LET o == [IdleOp("click_on", "False") EXCEPT !.moved = r.moved]
           IN  /\ OnPage(r.wc)
               /\ origin_coordinates' = r.wc
               /\ human_origin_coordinate' = r.wa
               /\ IF r.is_false
                  THEN op' = o /\ UNCHANGED button_held
                  ELSE \E click_ok \in BOOLEAN :
                         LET ck == click_perform(o, button_held, click_ok)
                         IN  /\ op' = [ck.op EXCEPT !.result = IF click_ok THEN "True"
                                                                ELSE "False"]
                             /\ button_held' = ck.held
    /\ UNCHANGED <<optimize_for_headless, human_curve, accVars, kbdVars, recVars, txtVars>>

\* a drag_and_drop that never releases
release_skipped(o, held, ok) == [op |-> o, held |-> held]

\* one release().perform() of drag_and_drop (lines 272, 276 and 283)
release_perform(o, held, ok) ==
    [ op   |-> [o EXCEPT !.releases_issued = @ + 1,
                         !.releases_performed = @ + (IF ok THEN 1 ELSE 0)],
      held |-> held /\ ~ok ]

\* drag_and_drop, lines 234-258: the move to the source, then click() when
\* there is no target, click_and_hold() when there is; ok: that perform() did
\* not raise
DragStart ==
    /\ op.pc = "idle"
    /\ \E from \in DragSources :
         \E fate \in CursorFates(from) :
           \E r \in {cursor_move_to(from, FALSE, None, FALSE, fate)} :
               /\ OnPage(r.wc)
               /\ origin_coordinates' = r.wc
               /\ human_origin_coordinate' = r.wa
               /\ LET o == [IdleOp("drag_and_drop", "False") EXCEPT !.moved = r.moved]
                  IN  IF r.is_false
                      THEN op' = o /\ UNCHANGED button_held
                      ELSE \E to \in DragTargets, ok \in BOOLEAN :
                             LET ck == click_perform(o, button_held, ok)
                             IN  IF to = NoElement
                                 THEN /\ op' = IF ok
                                               THEN [ck.op EXCEPT !.result = "True"]
                                               ELSE [ck.op EXCEPT !.pc = "handler"]
                                      /\ button_held' = ck.held
                                 ELSE /\ op' = IF ok
                                               THEN [o EXCEPT !.pressed = TRUE,
                                                              !.to = to,
                                                              !.pc = "move_target"]
                                               ELSE [o EXCEPT !.pc = "handler"]
                                      /\ button_held' = (button_held \/ ok)
    /\ UNCHANGED <<optimize_for_headless, human_curve, accVars, kbdVars, recVars, txtVars>>

\* drag_and_drop, lines 260-268: the move to the target
DragMoveTarget ==
    /\ op.pc = "move_target"
    /\ \E fate \in CursorFates(op.to) :
           \E r \in {cursor_move_to(op.to, FALSE, None, FALSE, fate)} :
               /\ OnPage(r.wc)
               /\ origin_coordinates' = r.wc
               /\ human_origin_coordinate' = r.wa
               /\ op' = [op EXCEPT !.pc = "release", !.moved = r.moved,
                                    !.to = NoElement, !.move_false = r.is_false]
    /\ UNCHANGED <<button_held, optimize_for_headless, human_curve, accVars,
                   kbdVars, recVars, txtVars>>

\* drag_and_drop, lines 270-277: the release after the move and the return
DragRelease ==
    /\ op.pc = "release"
    /\ \E ok \in BOOLEAN :
         LET rl == release_perform(op, button_held, ok)
         IN  /\ op' = IF ok
                      THEN [rl.op EXCEPT !.pc = "idle",
                                         !.result = IF op.move_false THEN "False"
                                                    ELSE "True"]
                      ELSE [rl.op EXCEPT !.pc = "handler"]
             /\ button_held' = rl.held
    /\ UNCHANGED <<origin_coordinates, adjVars, accVars, kbdVars, recVars, txtVars>>

\* drag_and_drop, lines 279-286: the except branch
DragHandler ==
    /\ op.pc = "handler"
    /\ \E ok \in BOOLEAN :
         LET rl == release_perform(op, button_held, ok)
         IN  /\ op' = [rl.op EXCEPT !.pc = "idle", !.result = "False",
                                    !.handler = TRUE]
             /\ button_held' = rl.held
    /\ UNCHANGED <<origin_coordinates, adjVars, accVars, kbdVars, recVars, txtVars>>

\* the offsets handed to move_by_offset; the last one is not a number
Offsets == {e \in Elements : e.kind = "list" /\ e.pos # <<MaxPixel, 1>>}

\* WebCursor.move_by_offset
MoveByOffset ==
    /\ op.pc = "idle"
    /\ \E offset \in Offsets :
         \E fate \in CursorFates(offset) :
           \E r \in {adjuster_move_to(human_origin_coordinate, offset, None, TRUE,
                                     FALSE, optimize_for_headless, fate)} :
               /\ OnPage(r.ret)
               /\ origin_coordinates' = r.ret
               /\ human_origin_coordinate' = r.origin_coordinate
               /\ op' = [IdleOp("move_by_offset", "True") EXCEPT !.moved = r.moved]
    /\ UNCHANGED <<button_held, optimize_for_headless, human_curve, accVars, kbdVars, recVars, txtVars>>

\* the scroll bars handed to control_scroll_bar
ScrollBars == {e \in Elements : e.kind = "WebElement"}

\* control_scroll_bar, lines 304-314 and 339-345: the move to the scroll bar
\* and click_and_hold, whose perform() returns or raises; released: the
\* release of the except branch did not raise
ControlScrollBarStart ==
    /\ op.pc = "idle"
    /\ \E bar \in ScrollBars :
         \E fate \in CursorFates(bar) :
           \E r \in {cursor_move_to(bar, FALSE, None, FALSE, fate)} :
               /\ OnPage(r.wc)
               /\ origin_coordinates' = r.wc
               /\ human_origin_coordinate' = r.wa
               /\ LET o == [IdleOp("control_scroll_bar", "False") EXCEPT !.moved = r.moved]
                  IN  IF r.is_false
                      THEN op' = o /\ UNCHANGED button_held
                      ELSE \/ /\ op' = [o EXCEPT !.pressed = TRUE, !.to = bar,
                                                     !.pc = "scroll_target"]
                              /\ button_held' = TRUE
                           \/ \E released \in BOOLEAN :
                                LET rl == release_perform(o, button_held, released)
                                IN  /\ op' = [rl.op EXCEPT !.handler = TRUE]
                                    /\ button_held' = rl.held
    /\ UNCHANGED <<optimize_for_headless, human_curve, accVars, kbdVars, recVars, txtVars>>

\* control_scroll_bar, lines 328-345: the move along the scroll bar, whose
\* result is not looked at, and the release, which returns or raises;
\* released: the release of the except branch did not raise; steady is left
\* at its default
ControlScrollBarFinish ==
    /\ op.pc = "scroll_target"
    /\ \E fate \in CursorFates(op.to) :
           \E r \in {cursor_move_to(op.to, FALSE, None, FALSE, fate)} :
               /\ OnPage(r.wc)
               /\ origin_coordinates' = r.wc
               /\ human_origin_coordinate' = r.wa
               /\ LET o  == [op EXCEPT !.pc = "idle", !.moved = r.moved,
                                       !.to = NoElement, !.move_false = r.is_false]
                      rl == release_perform(o, button_held, FALSE)
                  IN  \/ /\ op' = [release_perform(o, button_held, TRUE).op
                                       EXCEPT !.result = "True"]
                         /\ button_held' = FALSE
                      \/ \E released \in BOOLEAN :
                           LET rl2 == release_perform(rl.op, rl.held, released)
                           IN  /\ op' = [rl2.op EXCEPT !.handler = TRUE]
                               /\ button_held' = rl2.held
    /\ UNCHANGED <<optimize_for_headless, human_curve, accVars, kbdVars, recVars, txtVars>>

\* WebCursor.reset_cursor_position
ResetCursorPosition ==
    /\ op.pc = "idle"
    /\ origin_coordinates' = <<0, 0>>
    /\ \E scroll \in ScrollOffsets : human_origin_coordinate' = reset_origin(scroll)
    /\ op' = IdleOp("reset_cursor_position", "True")
    /\ UNCHANGED <<button_held, optimize_for_headless, human_curve, accVars, kbdVars, recVars, txtVars>>

NextCursor ==
    \/ MoveTo
    \/ ClickOn
    \/ DragStart
    \/ DragMoveTarget
    \/ DragRelease
    \/ DragHandler
    \/ MoveByOffset
    \/ ControlScrollBarStart
    \/ ControlScrollBarFinish
    \/ ResetCursorPosition

SpecCursor == InitCursor /\ [][NextCursor]_vars

(***************************************************************************)
(* C3: WebCursor.click_on returns False and issues no click whenever the   *)
(* movement to the target did not succeed (element not scrollable into     *)
(* view, target coordinates not computable, or the underlying WebAdjuster  *)
(* movement raised a driver error); it returns True only after the cursor  *)
(* was moved to the target and the click was performed.                    *)
(***************************************************************************)
C3_NoClickAfterFailedMove ==
    (op.name = "click_on" /\ op.pc = "idle") =>
        /\ ~op.moved => (op.result = "False" /\ op.clicks_issued = 0)
        /\ op.result = "True" => (op.moved /\ op.clicks_performed >= 1)

(***************************************************************************)
(* C4, as the code has it: in WebCursor.drag_and_drop, once the button has *)
(* been pressed (click_and_hold performed), at least one release is issued *)
(* before the method returns on every path - successful drop, failed move  *)
(* to the drop target, or an exception - and the method returns with the   *)
(* button held only if the driver rejected every release it issued; when   *)
(* the button was never pressed, a release is issued only by the exception *)
(* handler, after perform() of click or click_and_hold raised.             *)
(***************************************************************************)
C4_ReleaseAfterPress ==
    (op.name = "drag_and_drop" /\ op.pc = "idle") =>
        /\ op.pressed => op.releases_issued >= 1
        /\ (op.pressed /\ button_held) => op.releases_performed = 0
        /\ (~op.pressed /\ op.releases_issued > 0) =>
              (op.handler /\ op.releases_issued = 1 /\ op.result = "False")

\* a drag whose move to the drop target returned False after the press: the
\* release was issued and performed, and the method returned False
C4_Witness ==
    /\ op.name = "drag_and_drop"
    /\ op.pc = "idle"
    /\ op.pressed
    /\ op.move_false
    /\ op.result = "False"
    /\ op.releases_performed = 1
    /\ ~button_held

(***************************************************************************)
(* C4 as stated: once the button has been pressed a release is issued      *)
(* before the method returns on every path, so the method never returns    *)
(* with the button held; and no release is issued on a path where the      *)
(* button was never pressed.                                               *)
(***************************************************************************)
C4_AsStated ==
    (op.name = "drag_and_drop" /\ op.pc = "idle") =>
        /\ op.pressed => (op.releases_issued >= 1 /\ ~button_held)
        /\ ~op.pressed => op.releases_issued = 0

(***************************************************************************)
(* SpecKeyboard: actions                                                   *)
(***************************************************************************)
InitKeyboard ==
    /\ settings = DefaultSettings
    /\ \E pct \in ErrorRates :
          /\ engine = TypingEngine(0, pct)
          /\ kop = NoCall(DefaultSettings, TypingEngine(0, pct))
    /\ now = 0
    /\ calls = 0
    /\ AccumulatorIdle
    /\ AdjusterIdle
    /\ CursorIdle
    /\ RecorderIdle
    /\ TextIdle

\* KeyboardHumanizer.type_text
TypeText ==
    /\ calls < MaxCalls
    /\ \E text \in CallTexts, kwargs \in KwargsSet :
         \E fate \in TypeFates(TextInfo[text].sentences,
                                apply_overrides(settings, kwargs), engine,
                                kwargs) :
           \E r \in {type_text(settings, engine, text, kwargs, now, fate)} :
               /\ settings' = r.settings
               /\ engine' = r.engine
               /\ kop' = [ name |-> "type_text", outcome |-> r.outcome, at |-> now,
                           kwargs |-> kwargs, text |-> text,
                           text_len |-> Len(text),
                           key |-> "none", value |-> FALSE,
                           settings_before |-> settings, engine_before |-> engine,
                           spont |-> fate.spont, slept |-> r.slept ]
    /\ calls' = calls + 1
    /\ UNCHANGED <<now, accVars, adjVars, curVars, recVars, txtVars>>

\* KeyboardHumanizer.reset_session
ResetSession ==
    /\ calls < MaxCalls
    /\ engine' = reset_session(engine, now)
    /\ kop' = [NoCall(settings, engine) EXCEPT !.name = "reset_session",
                                               !.outcome = "True", !.at = now]
    /\ calls' = calls + 1
    /\ UNCHANGED <<settings, now, accVars, adjVars, curVars, recVars, txtVars>>

\* the names configure is called with: a setting, a name the humanizer does
\* not have, and its attribute engine
ConfigureKeys == {"simulate_fatigue", "typing_speed", "engine"}

\* the values configure is called with: a boolean, or for engine a
\* TypingEngine() constructed at time t
ConfigureValues(key, e, t) ==
    IF key = "engine" THEN {TypingEngine(t, e.error_rate.pct)} ELSE BOOLEAN

\* KeyboardHumanizer.configure with one keyword argument
Configure ==
    /\ calls < MaxCalls
    /\ \E key \in ConfigureKeys :
         \E value \in ConfigureValues(key, engine, now) :
           \E r \in {configure(settings, engine, key, value)} :
               /\ settings' = r.settings
               /\ engine' = r.engine
               /\ kop' = [NoCall(settings, engine) EXCEPT
                             !.name = "configure", !.outcome = "True",
                             !.at = now, !.key = key, !.value = value]
    /\ calls' = calls + 1
    /\ UNCHANGED <<now, accVars, adjVars, curVars, recVars, txtVars>>

\* time passes
Tick ==
    /\ now < MaxTime
    /\ now' = now + 1
    /\ UNCHANGED <<settings, engine, calls, kop, accVars, adjVars, curVars, recVars, txtVars>>

NextKeyboard == TypeText \/ ResetSession \/ Configure \/ Tick

SpecKeyboard == InitKeyboard /\ [][NextKeyboard]_vars

(***************************************************************************)
(* C5: every KeyboardHumanizer.type_text call that passes temporary        *)
(* overrides (simulate_errors, use_copy_paste, add_thinking_pauses,        *)
(* speed_multiplier) leaves each overridden setting, and engine.base_wpm   *)
(* when speed_multiplier was given, equal to its value before the call     *)
(* when the call ends - whether typing succeeded, returned False, or       *)
(* raised an exception.                                                    *)
(***************************************************************************)
C5_OverridesRestored ==
    kop.name = "type_text" =>
        /\ kop.kwargs.simulate_errors.given =>
              settings.simulate_errors = kop.settings_before.simulate_errors
        /\ kop.kwargs.use_copy_paste.given =>
              settings.use_copy_paste = kop.settings_before.use_copy_paste
        /\ kop.kwargs.add_thinking_pauses.given =>
              settings.add_thinking_pauses = kop.settings_before.add_thinking_pauses
        /\ kop.kwargs.speed_multiplier.given =>
              engine.base_wpm = kop.engine_before.base_wpm

(***************************************************************************)
(* C6: after KeyboardHumanizer.reset_session, whatever sequence of typing  *)
(* operations preceded it, fatigue_level is exactly 0, session_start is    *)
(* the time of the reset, and the typing statistics are zeroed             *)
(* (characters_typed, words_typed, errors_made, corrections_made all 0).   *)
(***************************************************************************)
C6_ResetZeroes ==
    kop.name = "reset_session" =>
        /\ engine.fatigue_level = 0
        /\ engine.session_start = kop.at
        /\ engine.stats.characters_typed = 0
        /\ engine.stats.words_typed = 0
        /\ engine.stats.errors_made = 0
        /\ engine.stats.corrections_made = 0

\* a reset, later than the start of the session, of an engine that was tired
\* and had typed
C6_Witness ==
    /\ kop.name = "reset_session"
    /\ kop.at > kop.engine_before.session_start
    /\ kop.engine_before.fatigue_level > 0
    /\ kop.engine_before.stats.characters_typed > 0
    /\ kop.engine_before.stats.words_typed > 0

(***************************************************************************)
(* C7: between two reset_session calls, fatigue_level always lies in       *)
(* [0,1] and never decreases across successive type_text calls (each of    *)
(* which updates fatigue from now - session_start when simulate_fatigue is *)
(* on); the only operation that lowers fatigue_level is reset_session.     *)
(* fatigue_level is counted in steps of 1/FatigueFull.                     *)
(***************************************************************************)
C7_FatigueMonotone ==
    /\ [](engine.fatigue_level \in 0..FatigueFull)
    /\ [][engine'.fatigue_level < engine.fatigue_level =>
            kop'.name = "reset_session"]_vars

(***************************************************************************)
(* C8: typing any text with error rate 0 through                           *)
(* KeyboardHumanizer.type_text yields errors_made = 0, corrections_made =  *)
(* 0 and characters_typed equal to the length of the text - including      *)
(* texts of several sentences, which are split by _split_into_sentences    *)
(* and handed to the engine segment by segment.  Stated of the counters'   *)
(* growth over one call that returned True and drew no spontaneous         *)
(* correction.                                                             *)
(***************************************************************************)
C8_ErrorFreeCount ==
    (/\ kop.name = "type_text"
     /\ kop.outcome = "True"
     /\ kop.engine_before.error_rate.pct = 0
     /\ ~kop.spont) =>
        /\ engine.stats.errors_made = kop.engine_before.stats.errors_made
        /\ engine.stats.corrections_made = kop.engine_before.stats.corrections_made
        /\ engine.stats.characters_typed =
              kop.engine_before.stats.characters_typed + kop.text_len

(***************************************************************************)
(* SpecRecorder: actions                                                   *)
(***************************************************************************)
InitRecorder ==
    /\ RecorderIdle
    /\ AccumulatorIdle
    /\ AdjusterIdle
    /\ CursorIdle
    /\ KeyboardIdle
    /\ TextIdle

others == <<accVars, adjVars, curVars, kbdVars, txtVars>>

\* toggle_recording -> start_recording
StartRecording ==
    /\ phase = "open"
    /\ ~hcs.recording
    /\ hcs' = [hcs EXCEPT !.recording = TRUE]
    /\ UNCHANGED <<pointer, clock, ctrl_down, phase, gui_script, file_script,
                   gesture, others>>

\* toggle_recording -> stop_recording
StopRecording ==
    /\ phase = "open"
    /\ hcs.recording
    /\ hcs' = [hcs EXCEPT !.recording = FALSE]
    /\ gesture' = IF gesture.kind = "pending" THEN [gesture EXCEPT !.clean = FALSE]
                  ELSE gesture
    /\ UNCHANGED <<pointer, clock, ctrl_down, phase, gui_script, file_script, others>>

\* the Ctrl key goes down, or repeats while it is held: on_key_press
CtrlPress ==
    /\ phase = "open"
    /\ Len(hcs.coordinates) < MaxActions
    /\ ctrl_down' = TRUE
    /\ hcs' = on_key_press_ctrl(hcs, pointer, clock)
    /\ gesture' = IF hcs.recording /\ ~hcs.ctrl_pressed
                  THEN [ kind |-> "pending", slot |-> Len(hcs.coordinates) + 1,
                         start |-> pointer, end |-> pointer, clean |-> TRUE,
                         alive |-> TRUE ]
                  ELSE gesture
    /\ UNCHANGED <<pointer, clock, phase, gui_script, file_script, others>>

\* the Ctrl key goes up: on_key_release
CtrlRelease ==
    /\ phase = "open"
    /\ ctrl_down
    /\ ctrl_down' = FALSE
    /\ hcs' = on_key_release_ctrl(hcs, pointer, clock)
    /\ gesture' = IF hcs.recording /\ hcs.ctrl_pressed /\ gesture.kind = "pending"
                  THEN [gesture EXCEPT
                          !.kind = IF clock - hcs.press_time > hold_time_threshold
                                   THEN "drag" ELSE "click",
                          !.end = pointer]
                  ELSE gesture
    /\ UNCHANGED <<pointer, clock, phase, gui_script, file_script, others>>

\* the z key goes down: on_key_press
ZPress ==
    /\ phase = "open"
    /\ Len(hcs.coordinates) < MaxActions
    /\ hcs' = on_key_press_z(hcs, pointer)
    /\ gesture' = IF hcs.recording /\ gesture.kind = "pending"
                  THEN [gesture EXCEPT !.clean = FALSE]
                  ELSE gesture
    /\ UNCHANGED <<pointer, clock, ctrl_down, phase, gui_script, file_script, others>>

\* the Clear button, confirmed
ClearRecording ==
    /\ phase = "open"
    /\ hcs' = clear_recording(hcs)
    /\ gesture' = IF gesture.kind = "pending"
                  THEN [gesture EXCEPT !.clean = FALSE, !.alive = FALSE]
                  ELSE NoGesture
    /\ UNCHANGED <<pointer, clock, ctrl_down, phase, gui_script, file_script, others>>

\* the user moves the mouse
MoveMouse ==
    /\ phase = "open"
    /\ \E pos \in Positions \ {pointer} : pointer' = pos
    /\ UNCHANGED <<hcs, clock, ctrl_down, phase, gui_script, file_script, gesture,
                   others>>

\* a quarter of a second passes
ClockTick ==
    /\ phase = "open"
    /\ clock < MaxClock
    /\ clock' = clock + 1
    /\ UNCHANGED <<hcs, pointer, ctrl_down, phase, gui_script, file_script, gesture,
                   others>>

\* finish_recording; dest_ok: the destination directory exists
FinishRecording ==
    /\ phase = "open"
    /\ \E dest_ok \in BOOLEAN :
         /\ hcs' = [hcs EXCEPT !.recording = FALSE]
         /\ IF dest_ok /\ hcs.coordinates # <<>>
            THEN /\ gui_script' = generate_script(hcs.coordinates)
                 /\ file_script' = generate_script(hcs.coordinates)
                 /\ phase' = "closed"
            ELSE UNCHANGED <<gui_script, file_script, phase>>
    /\ gesture' = IF gesture.kind = "pending" THEN [gesture EXCEPT !.clean = FALSE]
                  ELSE gesture
    /\ UNCHANGED <<pointer, clock, ctrl_down, others>>

\* the window is closed without saving
CloseWindow ==
    /\ phase = "open"
    /\ phase' = "cancelled"
    /\ UNCHANGED <<hcs, pointer, clock, ctrl_down, gui_script, file_script, gesture,
                   others>>

\* launch.main, lines 127-148, after the window has returned its recording;
\* write_ok: the file could be opened for writing
LauncherWrite ==
    /\ phase = "closed"
    /\ \E write_ok \in BOOLEAN :
         file_script' = IF write_ok THEN generate_script_content(hcs.coordinates)
                        ELSE file_script
    /\ phase' = "written"
    /\ UNCHANGED <<hcs, pointer, clock, ctrl_down, gui_script, gesture, others>>

NextRecorder ==
    \/ StartRecording
    \/ StopRecording
    \/ CtrlPress
    \/ CtrlRelease
    \/ ZPress
    \/ ClearRecording
    \/ MoveMouse
    \/ ClockTick
    \/ FinishRecording
    \/ CloseWindow
    \/ LauncherWrite

SpecRecorder == InitRecorder /\ [][NextRecorder]_vars

\* the call a script makes for the gesture's entry, "none" when it has no such call
ScriptCall(script) ==
    IF gesture.slot \in 1..Len(script) THEN script[gesture.slot]
    ELSE Call("none", <<>>, "")

\* C9: once the recording is saved, a Ctrl press released within the hold
\* threshold is recorded as one action at the position of the press, and the
\* script calls click_on at that position for it, whichever writer wrote it
C9_ShortPressIsClick ==
    (phase \in {"closed", "written"} /\ gesture.kind = "click" /\ gesture.clean) =>
        /\ Len(hcs.coordinates) >= gesture.slot
        /\ hcs.coordinates[gesture.slot] = ListOf(TupleItem(gesture.start))
        /\ ScriptCall(gui_script).fn = "click_on"
        /\ ScriptCall(gui_script).args = <<ListOf(TupleItem(gesture.start))>>
        /\ ScriptCall(file_script).fn = "click_on"

\* C10: once the recording is saved, a Ctrl press held longer than the hold
\* threshold is recorded as one drag from the position of the press to the
\* position of the release, and the script file calls drag_and_drop(start, end)
\* for it
C10_LongPressIsDrag ==
    (phase \in {"closed", "written"} /\ gesture.kind = "drag" /\ gesture.clean) =>
        /\ Len(hcs.coordinates) >= gesture.slot
        /\ hcs.coordinates[gesture.slot]
             = <<TupleItem(gesture.start), TupleItem(gesture.end)>>
        /\ ScriptCall(file_script).fn = "drag_and_drop"
        /\ ScriptCall(file_script).args
             = <<ListOf(TupleItem(gesture.start)), ListOf(TupleItem(gesture.end))>>

(***************************************************************************)
(* C11: when the curve parameters are invalid or their generation fails,   *)
(* the caller of the movement receives a configuration error: no           *)
(* movement is carried out on a curve built from the generator's default   *)
(* parameters in place of the ones that could not be had.                  *)
(***************************************************************************)
C11_NoSilentDefaults ==
    human_curve.built => ~human_curve.fallback

(***************************************************************************)
(* C12: in steady mode the parameters the trajectory is built with have    *)
(* knots_count in {0, 1} and the offset boundaries and the distortion at   *)
(* their steady values (10, 10 and 1.2, 1.2, 0.1), whatever the selector   *)
(* returned for the two endpoints.                                         *)
(***************************************************************************)
C12_SteadyParameters ==
    (human_curve.built /\ human_curve.steady /\ ~human_curve.fallback) =>
        /\ human_curve.params.knots_count \in {0, 1}
        /\ human_curve.params.offset_boundary_x = 10
        /\ human_curve.params.offset_boundary_y = 10
        /\ human_curve.params.distortion_mean = 12
        /\ human_curve.params.distortion_st_dev = 12
        /\ human_curve.params.distortion_frequency = 1

(***************************************************************************)
(* C13: producing the keystroke stream never blocks: during a type_text    *)
(* call nothing is handed to time.sleep, thinking pauses between           *)
(* sentences included.                                                     *)
(***************************************************************************)
C13_NeverSleeps ==
    kop.name = "type_text" => kop.slept = <<>>

(***************************************************************************)
(* C14: with simulate_errors disabled, through configure or as an override *)
(* of the call, typing a text makes no mistakes and no corrections:        *)
(* errors_made and corrections_made are after the call what they were      *)
(* before it.                                                              *)
(***************************************************************************)
C14_NoErrorsWhenDisabled ==
    LET given == kop.kwargs.simulate_errors.given
        off   == IF given THEN ~kop.kwargs.simulate_errors.value
                 ELSE ~kop.settings_before.simulate_errors
    IN  (kop.name = "type_text" /\ off) =>
            /\ engine.stats.errors_made = kop.engine_before.stats.errors_made
            /\ engine.stats.corrections_made
                 = kop.engine_before.stats.corrections_made

(***************************************************************************)
(* C15: a thinking pause occurs only between two consecutive sentences of  *)
(* one type_text call, never before the first sentence and never after     *)
(* the last, and only while add_thinking_pauses is on for the call; each   *)
(* pause slept lies within [0.3, 1.5] seconds (the others are 0).          *)
(***************************************************************************)
C15_PausesBetweenSentences ==
    kop.name = "type_text" =>
        LET during == apply_overrides(kop.settings_before, kop.kwargs)
            gaps   == Len(TextInfo[kop.text].sentences) - 1
        IN  /\ Len(kop.slept) <= gaps
            /\ kop.slept # <<>> => during.add_thinking_pauses
            /\ \A k \in 1..Len(kop.slept) : kop.slept[k] \in 3..15

\* a call on a text of two sentences that slept once, between them
C15_Witness ==
    /\ kop.name = "type_text"
    /\ kop.outcome = "True"
    /\ Len(TextInfo[kop.text].sentences) = 2
    /\ Len(kop.slept) = 1

(***************************************************************************)
(* SpecText: the text functions of KeyboardHumanizer, each applied once to *)
(* a text drawn from                                                       *)
(*   SplitTexts   every text of at most MaxLen letters, blanks and         *)
(*                terminal punctuation marks                               *)
(*   WordTexts    every text of at most MaxWords one-letter words          *)
(*   NamedTexts   the texts of SpecKeyboard and a few more                 *)
(***************************************************************************)
SplitChars == {"a", " ", ".", "?"}

SplitTexts == SeqsUpTo(SplitChars, MaxLen)

Vocabulary == {"a", "b", "c", "d"}

\* " ".join(words)
RECURSIVE JoinWords(_)
JoinWords(words) ==
    IF words = <<>> THEN <<>>
    ELSE IF Len(words) = 1 THEN <<words[1]>>
    ELSE <<words[1], " ">> \o JoinWords(Tail(words))

WordTexts == {JoinWords(words) : words \in SeqsUpTo(Vocabulary, MaxWords)}

\* "Hello"
HelloText == <<"H", "e", "l", "l", "o">>

\* "a@b.com Hello"
AddressText == <<"a", "@", "b", ".", "c", "o", "m", " ", "H", "e", "l", "l", "o">>

\* "a b c d e f g a b c": ten words, seven of them distinct
TenWordsText == JoinWords(<<"a", "b", "c", "d", "e", "f", "g", "a", "b", "c">>)

\* "a\tb\na b a": five words between a tab, a newline and blanks
TabbedText == <<"a", "\t", "b", "\n", "a", " ", "b", " ", "a">>

NamedTexts == Texts \cup {HelloText, AddressText, TenWordsText, TabbedText}

SampleTexts == SplitTexts \cup WordTexts \cup NamedTexts

InitText ==
    /\ sample \in SampleTexts
    /\ verdict = NoVerdict
    /\ AccumulatorIdle
    /\ AdjusterIdle
    /\ CursorIdle
    /\ KeyboardIdle
    /\ RecorderIdle

\* KeyboardHumanizer._split_into_sentences(sample)
SplitIntoSentences ==
    /\ ~verdict.split
    /\ verdict' = [verdict EXCEPT !.split = TRUE,
                                  !.sentences = split_into_sentences(sample)]
    /\ UNCHANGED <<sample, accVars, adjVars, curVars, kbdVars, recVars>>

\* the four classifiers _adapt_to_context asks, each applied to sample
ClassifyText ==
    /\ ~verdict.classified
    /\ verdict' = [verdict EXCEPT !.classified = TRUE,
                                  !.code = is_code_text(sample),
                                  !.email = is_email_text(sample),
                                  !.formal = is_formal_text(sample),
                                  !.repetitive = has_repetitive_content(sample)]
    /\ UNCHANGED <<sample, accVars, adjVars, curVars, kbdVars, recVars>>

NextText == SplitIntoSentences \/ ClassifyText

SpecText == InitText /\ [][NextText]_vars

\* the characters of a text that are not whitespace, in order
NoBlanks(text) == SelectSeq(text, LAMBDA c : c \notin Whitespace)

\* the segments of a list one after the other
RECURSIVE Concat(_)
Concat(segments) ==
    IF segments = <<>> THEN <<>> ELSE segments[1] \o Concat(Tail(segments))

(***************************************************************************)
(* C16: _split_into_sentences ends a segment at a '.', '!' or '?' exactly  *)
(* when the fragment so far, stripped and with the mark, is longer than 3  *)
(* characters; a mark that comes earlier stays inside the fragment.  The   *)
(* segments come in text order and keep every character but whitespace at  *)
(* their ends, every segment but possibly the last ends in a terminal      *)
(* mark, and the list is never empty.                                      *)
(***************************************************************************)
C16_SentenceSplit ==
    verdict.split =>
        LET s == verdict.sentences
        IN  /\ s # <<>>
            /\ \A i \in 1..(Len(s) - 1) :
                  /\ Len(s[i]) > 3
                  /\ s[i][Len(s[i])] \in SentenceEnd
            /\ \A i \in 1..Len(s) : \A k \in 1..(Len(s[i]) - 1) :
                  s[i][k] \in SentenceEnd => k <= 3
            /\ NoBlanks(Concat(s)) = NoBlanks(sample)

\* a text split in two whose first segment holds an early mark that did not
\* end it
C16_Witness ==
    /\ verdict.split
    /\ Len(verdict.sentences) = 2
    /\ \E k \in 1..3 : verdict.sentences[1][k] \in SentenceEnd

\* where the words of a text begin: a character that is not whitespace, at
\* the start of the text or after whitespace
WordStarts(text) ==
    {i \in 1..Len(text) :
        text[i] \notin Whitespace /\ (i = 1 \/ text[i - 1] \in Whitespace)}

\* the word that begins at i: the characters up to the next whitespace
WordAt(text, i) ==
    LET ends == {j \in i..Len(text) :
                    /\ \A k \in i..j : text[k] \notin Whitespace
                    /\ (j = Len(text) \/ text[j + 1] \in Whitespace)}
    IN  SubSeq(text, i, CHOOSE j \in ends : TRUE)

(***************************************************************************)
(* C17: a text is classified repetitive exactly when it has at least 5     *)
(* whitespace-separated words and its distinct words are strictly fewer    *)
(* than 0.7 times its words; a text of fewer than 5 words never is.        *)
(***************************************************************************)
C17_RepetitiveRatio ==
    verdict.classified =>
        LET total    == Cardinality(WordStarts(sample))
            distinct == Cardinality({WordAt(sample, i) : i \in WordStarts(sample)})
        IN  verdict.repetitive <=> (total >= 5 /\ 10 * distinct < 7 * total)

\* a text of five words, three of them distinct, classified repetitive
C17_Witness ==
    /\ verdict.classified
    /\ verdict.repetitive
    /\ Cardinality(WordStarts(sample)) = 5
    /\ Cardinality({WordAt(sample, i) : i \in WordStarts(sample)}) = 3

\* the domain suffixes among the email indicators
DomainSuffixes == {<<".", "c", "o", "m">>, <<".", "o", "r", "g">>, <<".", "n", "e", "t">>}

(***************************************************************************)
(* C18: a text is classified email-like on an "@" together with a          *)
(* salutation or sign-off, or on a domain suffix; a text with no "@" and   *)
(* no domain suffix, such as one that only holds a salutation, is not      *)
(* classified email-like.                                                  *)
(***************************************************************************)
C18_EmailNeedsAddress ==
    ( /\ verdict.classified
      /\ ~IsInfix(<<"@">>, sample)
      /\ \A suffix \in DomainSuffixes : ~IsInfix(suffix, sample) )
    => ~verdict.email

(***************************************************************************)
(* C19: configure changes only configuration options.  For a name among    *)
(* the options get_current_config reports it sets that option to the given *)
(* value and leaves every other option as it was; for any other name it    *)
(* changes nothing of the humanizer.  The engine is never changed.         *)
(***************************************************************************)
C19_ConfigureOnlyOptions ==
    kop.name = "configure" =>
        LET before == get_current_config(kop.settings_before)
            after  == get_current_config(settings)
        IN  /\ engine = kop.engine_before
            /\ IF kop.key \in DOMAIN before
               THEN /\ after[kop.key] = kop.value
                    /\ \A other \in DOMAIN before \ {kop.key} :
                          after[other] = before[other]
               ELSE settings = kop.settings_before

(***************************************************************************)
(* C20: context adaptation does not persist between calls: after a         *)
(* type_text call without overrides has returned, engine.base_wpm,         *)
(* engine.error_rate and use_copy_paste are what they were before the      *)
(* call.                                                                   *)
(***************************************************************************)
C20_AdaptationDoesNotPersist ==
    (kop.name = "type_text" /\ kop.kwargs = NoKwargs) =>
        /\ engine.base_wpm = kop.engine_before.base_wpm
        /\ engine.error_rate = kop.engine_before.error_rate
        /\ settings.use_copy_paste = kop.settings_before.use_copy_paste

(***************************************************************************)
(* C21: the release of Ctrl finalizes the entry its press created,         *)
(* whatever happened between the two (a Z press that recorded a move, or   *)
(* Clear): the release modifies no other entry of the recording, and the   *)
(* entry of the press, while it is still in the recording, becomes a click *)
(* at the press position or a drag from the press position to the release  *)
(* position.                                                               *)
(***************************************************************************)
C21_ReleaseFinalizesOwnEntry ==
    [][ ( /\ ctrl_down /\ ~ctrl_down'
          /\ hcs.recording /\ hcs.ctrl_pressed /\ gesture.kind = "pending" )
        => /\ Len(hcs'.coordinates) = Len(hcs.coordinates)
           /\ \A k \in 1..Len(hcs.coordinates) :
                 (gesture.alive /\ k = gesture.slot)
                 \/ hcs'.coordinates[k] = hcs.coordinates[k]
           /\ gesture.alive =>
                 hcs'.coordinates[gesture.slot] \in
                    { ListOf(TupleItem(gesture.start)),
                      <<TupleItem(gesture.start), TupleItem(pointer)>> } ]_vars

(***************************************************************************)
(* C22: while recording is on, every physical press of Ctrl (the key was   *)
(* released before) appends exactly one entry, the pending entry at the    *)
(* pointer, and a press event that arrives while the key is still down     *)
(* appends no Ctrl entry; this after any earlier start, stop and clear,    *)
(* stopping while Ctrl was held included.  A key pressed while recording   *)
(* and still down has ctrl_pressed set: on_key_press sets it and only a    *)
(* release handled while recording clears it.                              *)
(***************************************************************************)
C22_EveryPressRecorded ==
    [][ /\ ( ~ctrl_down /\ ctrl_down' /\ hcs.recording )
           => hcs'.coordinates = Append(hcs.coordinates, <<TupleItem(pointer)>>)
        /\ ( /\ ctrl_down /\ ctrl_down' /\ hcs.ctrl_pressed
              /\ Len(hcs'.coordinates) > Len(hcs.coordinates) )
           => ~hcs'.coordinates[Len(hcs'.coordinates)][1].tuple ]_vars

(***************************************************************************)
(* C23: after every WebCursor operation (move_to, click_on,                *)
(* move_by_offset, drag_and_drop, control_scroll_bar,                      *)
(* reset_cursor_position), whether it succeeded or failed,                 *)
(* WebCursor.origin_coordinates equals the origin_coordinate of its        *)
(* WebAdjuster, so that a following move_by_offset starts from the         *)
(* position get_cursor_position reports.                                   *)
(***************************************************************************)
C23_OriginsAgree ==
    op.pc = "idle" => origin_coordinates = human_origin_coordinate

\* the entries the recorder is meant to produce: a move or a completed click
\* [x, y], a completed drag [(x, y), (x, y)], a Ctrl entry not yet released
\* [(x, y)]
Recorded(action) ==
    \/ Len(action) = 2 /\ ~action[1].tuple /\ ~action[2].tuple
    \/ Len(action) = 2 /\ action[1].tuple /\ action[2].tuple
    \/ Len(action) = 1 /\ action[1].tuple

\* two script calls of the same kind with the same coordinates
SameCall(a, b) == a.fn = b.fn /\ a.args = b.args

(***************************************************************************)
(* C24: the two script generators agree.  For every recording the recorder *)
(* holds, HCSWindowLinux.generate_script and launch.generate_script_content*)
(* write the same kind of cursor call (move_to, click_on or drag_and_drop) *)
(* with the same coordinates for each move, completed click, completed     *)
(* drag and unreleased Ctrl entry; so once launch.main has written over    *)
(* the file finish_recording saved, the file makes the calls the GUI's     *)
(* script made.                                                            *)
(***************************************************************************)
C24_GeneratorsAgree ==
    /\ \A i \in 1..Len(hcs.coordinates) :
          Recorded(hcs.coordinates[i]) =>
             SameCall(generate_script(hcs.coordinates)[i],
                      generate_script_content(hcs.coordinates)[i])
    /\ phase = "written" =>
          \A i \in 1..Len(gui_script) :
             Recorded(hcs.coordinates[i]) => SameCall(gui_script[i], file_script[i])

\* the moves of a sequence that are not (0, 0), in their order
Moving(moves) == SelectSeq(moves, LAMBDA mv : mv # <<0, 0>>)

(***************************************************************************)
(* C25: whenever WebAdjuster._execute_web_movement completes without a     *)
(* driver exception on a non-empty trajectory, the coordinates it returns  *)
(* are the origin plus the component-wise sum of all the offsets it issued *)
(* to move_by_offset (carry moves, per-hop moves and the final flush);     *)
(* every computed non-zero move was issued exactly once and in trajectory  *)
(* order, the final flush after them, and none is left pending in the      *)
(* batch.  While the loop runs, the computed non-zero moves are the issued *)
(* ones followed by the pending ones.                                      *)
(***************************************************************************)
C25_ReturnIsOriginPlusIssued ==
    /\ (exec.pc \in {"loop", "flush"}) =>
          Moving(exec.computed) = exec.issued \o Moving(exec.movements)
    /\ (exec.pc = "done" /\ exec.outcome = "ok" /\ exec.points # <<>>) =>
          LET n == Len(Moving(exec.computed))
          IN  /\ exec.result = <<exec.origin[1] + SumX(exec.issued),
                                 exec.origin[2] + SumY(exec.issued)>>
              /\ exec.movements = <<>>
              /\ Len(exec.issued) \in {n, n + 1}
              /\ SubSeq(exec.issued, 1, n) = Moving(exec.computed)

\* a completed run of more points than a batch holds, in which a carry move
\* was computed (so a batch ran before the last point) and the final flush
\* was issued after the computed moves
C25_Witness ==
    /\ exec.pc = "done"
    /\ exec.outcome = "ok"
    /\ Len(exec.points) > batch_size
    /\ Len(exec.computed) > Len(exec.points)
    /\ Len(exec.issued) = Len(Moving(exec.computed)) + 1
    /\ Len(exec.issued) >= 2
    /\ exec.result # exec.origin

=============================================================================
